---- MODULE Spec2Model ----
(***************************************************************************)
(* Content Organizer (src/app.py): a Streamlit script.  Every user         *)
(* interaction re-runs the whole script top to bottom against the session  *)
(* state and the CSV file; one action of this model is one such run.       *)
(*                                                                         *)
(* Text is a sequence of one-character strings, so that strip, lower,      *)
(* split, join, comparison and matching are computed as Python computes    *)
(* them.  A DataFrame cell is a record [k, s, n]: k = "str" (text s),      *)
(* "nan" (missing), "int" or "float" (number n), because pandas.read_csv   *)
(* does not give back the text that to_csv wrote.                          *)
(***************************************************************************)
EXTENDS Integers, Sequences, FiniteSets, TLC

(* ------------------------------ bounds -------------------------------- *)
\* records the CSV file may hold before Save is no longer offered, in the
\* sessions about the store and about the values in the CSV file
MaxRecords == 2
\* the same in the sessions about tags and the search, where the tags of one
\* record vary
MaxTagRecords == 1
\* minutes the wall clock may advance
MaxClock == 1

(* ------------------------------- text --------------------------------- *)
\* the characters in use, in code point order (Python compares str by code point)
Alphabet ==
  << " ", ",", "-", ".", "0", "1", "2", "3", "4", "5", "6", "7", "8", "9", ":",
     "A", "B", "C", "D", "E", "F", "G", "H", "I", "J", "K", "L", "M",
     "N", "O", "P", "Q", "R", "S", "T", "U", "V", "W", "X", "Y", "Z",
     "a", "b", "c", "d", "e", "f", "g", "h", "i", "j", "k", "l", "m",
     "n", "o", "p", "q", "r", "s", "t", "u", "v", "w", "x", "y", "z" >>

\* ord(c), relative to the first character in use
OrdMap == [c \in { Alphabet[i] : i \in 1..Len(Alphabet) } |-> CHOOSE i \in 1..Len(Alphabet) : Alphabet[i] = c]

Ord(c) == OrdMap[c]

DigitChars == << "0", "1", "2", "3", "4", "5", "6", "7", "8", "9" >>

IsDigit(c) == \E i \in 1..10 : DigitChars[i] = c

DigitVal(c) == (CHOOSE i \in 1..10 : DigitChars[i] = c) - 1

\* str.lower() on one character: "A".."Z" are 26 places before "a".."z"
LowerChar(c) == IF Ord(c) >= Ord("A") /\ Ord(c) <= Ord("Z") THEN Alphabet[Ord(c) + 26] ELSE c

\* str.lower()
Lower(s) == [i \in 1..Len(s) |-> LowerChar(s[i])]

\* str.strip(): drop leading and trailing blanks
RECURSIVE LStrip(_)
LStrip(s) == IF s # << >> /\ Head(s) = " " THEN LStrip(Tail(s)) ELSE s

RECURSIVE RStrip(_)
RStrip(s) == IF s # << >> /\ s[Len(s)] = " " THEN RStrip(SubSeq(s, 1, Len(s) - 1)) ELSE s

\* as Strip, but only leading blanks are dropped
Strip_LeftOnly(s) == LStrip(s)

Strip(s) == RStrip(LStrip(s))

\* Python's < on str: first differing code point, a proper prefix is smaller
RECURSIVE StrLess(_, _)
StrLess(a, b) ==
  IF b = << >> THEN FALSE
  ELSE IF a = << >> THEN TRUE
  ELSE IF Head(a) # Head(b) THEN Ord(Head(a)) < Ord(Head(b))
  ELSE StrLess(Tail(a), Tail(b))

\* sorted(set(...)) of texts
RECURSIVE SortedSet(_)
SortedSet(S) ==
  IF S = {} THEN << >>
  ELSE LET m == CHOOSE x \in S : \A y \in S \ {x} : StrLess(x, y)
       IN << m >> \o SortedSet(S \ {m})

\* str.split(","): the pieces between commas, empty pieces included
RECURSIVE SplitComma(_, _)
SplitComma(s, cur) ==
  IF s = << >> THEN << cur >>
  ELSE IF Head(s) = "," THEN << cur >> \o SplitComma(Tail(s), << >>)
  ELSE SplitComma(Tail(s), Append(cur, Head(s)))

\* ", ".join(list)
RECURSIVE JoinCommaSpace(_)
JoinCommaSpace(l) ==
  IF l = << >> THEN << >>
  ELSE IF Len(l) = 1 THEN l[1]
  ELSE l[1] \o << ",", " " >> \o JoinCommaSpace(Tail(l))

\* re.search(pat, text) for the patterns that occur: every character stands
\* for itself except ".", which matches any character
RegexSearch(pat, text) ==
  \E off \in 0..(Len(text) - Len(pat)) :
    \A j \in 1..Len(pat) : pat[j] = "." \/ pat[j] = text[off + j]

\* decimal digits of a natural number, and back
RECURSIVE DigitsOf(_)
DigitsOf(n) == IF n < 10 THEN << DigitChars[n + 1] >> ELSE DigitsOf(n \div 10) \o << DigitChars[(n % 10) + 1] >>

RECURSIVE NumVal(_)
NumVal(s) == IF s = << >> THEN 0 ELSE 10 * NumVal(SubSeq(s, 1, Len(s) - 1)) + DigitVal(s[Len(s)])

AllDigits(s) == s # << >> /\ \A i \in 1..Len(s) : IsDigit(s[i])

(* ------------------------------ texts in use -------------------------- *)
Study == << "S", "t", "u", "d", "y" >>
Work == << "W", "o", "r", "k" >>
Idea == << "I", "d", "e", "a" >>
Travel == << "T", "r", "a", "v", "e", "l" >>

DEFAULT_TAGS == << Study, Work, Idea >>


(* ------------------------- DataFrame cells ---------------------------- *)
StrCell(s) == [k |-> "str", s |-> s, n |-> 0]

NaN == [k |-> "nan", s |-> << >>, n |-> 0]

IntCell(n) == [k |-> "int", s |-> << >>, n |-> n]

FloatCell(n) == [k |-> "float", s |-> << >>, n |-> n]

\* the missing value of the parsed-timestamp helper column; parsed
\* timestamps are minutes since 1970 and so never negative
NaT == -1

Cols == << "username", "content", "reason", "tags", "saved_on" >>

ColSet == { Cols[i] : i \in 1..Len(Cols) }

(* --------------------------- the CSV file ----------------------------- *)
\* DATA_FILE is [st, cols, rows]: st = "absent", "corrupt" (exists, but
\* read_csv raises) or "ok"; cols the columns its header names; rows the
\* text of the five fields of every data row (empty under a missing column)
NA_TEXT == << "N", "A" >>

\* read_csv turns an empty field and the text NA (among others) into NaN
IsNA(t) == t = << >> \/ t = NA_TEXT

\* text that read_csv takes for a float: digits, ".", "0" (what to_csv
\* writes for a whole float; other fractions do not occur)
IsFloatText(t) ==
  /\ Len(t) >= 3
  /\ t[Len(t)] = "0"
  /\ t[Len(t) - 1] = "."
  /\ AllDigits(SubSeq(t, 1, Len(t) - 2))

IsNumText(t) == AllDigits(t) \/ IsFloatText(t)

NumOfText(t) == IF AllDigits(t) THEN NumVal(t) ELSE NumVal(SubSeq(t, 1, Len(t) - 2))

\* read_csv infers one dtype per column: a column whose fields are all
\* numbers becomes int64 (float64 if a field is missing or written as a
\* float), a column without any field becomes float64 NaN, everything else
\* stays text
ReadCsvCell(rows, c, i) ==
  LET idx == 1..Len(rows)
      nonNA == { j \in idx : ~IsNA(rows[j][c]) }
      numeric == nonNA # {} /\ \A j \in nonNA : IsNumText(rows[j][c])
      isInt == numeric /\ nonNA = idx /\ \A j \in idx : AllDigits(rows[j][c])
      t == rows[i][c]
  IN IF IsNA(t) THEN NaN
     ELSE IF ~numeric THEN StrCell(t)
     ELSE IF isInt THEN IntCell(NumOfText(t))
     ELSE FloatCell(NumOfText(t))

\* to_csv: text as it is, NaN as the empty field, numbers in decimal
ToCsvText(cell) ==
  CASE cell.k = "str" -> cell.s
    [] cell.k = "nan" -> << >>
    [] cell.k = "int" -> DigitsOf(cell.n)
    [] cell.k = "float" -> DigitsOf(cell.n) \o << ".", "0" >>

(* --------------------------- timestamps ------------------------------- *)
Pad2(n) == IF n < 10 THEN << "0" >> \o DigitsOf(n) ELSE DigitsOf(n)

\* datetime.now().strftime("%Y-%m-%d %H:%M") at minute t of the session
FmtNow(t) == << "2", "0", "2", "4", "-", "0", "1", "-", "0", "1", " ", "1", "0", ":" >> \o Pad2(t)

\* pd.to_datetime(text, errors="coerce") for "YYYY-MM-DD HH:MM": minutes
\* since 1970 (months of 31 days keep the order), NaT for anything else
ParseText(t) ==
  IF /\ Len(t) = 16
     /\ \A i \in {1, 2, 3, 4, 6, 7, 9, 10, 12, 13, 15, 16} : IsDigit(t[i])
     /\ t[5] = "-" /\ t[8] = "-" /\ t[11] = " " /\ t[14] = ":"
  THEN LET Y == NumVal(SubSeq(t, 1, 4))
           M == NumVal(SubSeq(t, 6, 7))
           D == NumVal(SubSeq(t, 9, 10))
           h == NumVal(SubSeq(t, 12, 13))
           m == NumVal(SubSeq(t, 15, 16))
       IN IF Y >= 1970 /\ M \in 1..12 /\ D \in 1..31 /\ h \in 0..23 /\ m \in 0..59
          THEN ((((Y - 1970) * 12 + (M - 1)) * 31 + (D - 1)) * 24 + h) * 60 + m
          ELSE NaT
  ELSE NaT

\* pd.to_datetime on a cell: text is parsed, NaN gives NaT, a number counts
\* nanoseconds from 1970 and so lands in minute 0
to_datetime(cell) ==
  CASE cell.k = "str" -> ParseText(cell.s)
    [] cell.k = "nan" -> NaT
    [] OTHER -> 0

(* ---------------------------- DataFrames ------------------------------ *)
\* A frame is [rows, helper, obj]: rows are records of five cells plus dt,
\* the value of the helper column _saved_on_dt; helper says whether the
\* frame has that column; obj is the set of columns of dtype object, the
\* only ones whose .str methods work.
\* pd.DataFrame(columns=expected_cols), lines 34 and 101
EmptyFrame == [rows |-> << >>, helper |-> FALSE, obj |-> ColSet]

\* the dtype read_csv gives a column is object when the file has no data
\* row or some field of the column stays text
IsObjectCol(rows, c) == rows = << >> \/ \E i \in 1..Len(rows) : rows[i][c].k = "str"

\* as load_data, but an unreadable file is read as one row of empty fields
load_data_Garbage(file) ==
  IF file.st = "absent" THEN EmptyFrame
  ELSE IF file.st = "corrupt"
  THEN [rows |-> << [c \in ColSet |-> NaN] @@ [dt |-> NaT] >>, helper |-> TRUE, obj |-> {}]
  ELSE LET cell(c, i) == IF c \in file.cols THEN ReadCsvCell(file.rows, c, i) ELSE StrCell(<< >>)
           row(i) == [c \in ColSet |-> cell(c, i)]
           rows == [i \in 1..Len(file.rows) |->
                      [username |-> row(i)["username"], content |-> row(i)["content"],
                       reason |-> row(i)["reason"], tags |-> row(i)["tags"],
                       saved_on |-> row(i)["saved_on"], dt |-> to_datetime(row(i)["saved_on"])]]
       IN [rows |-> rows, helper |-> TRUE, obj |-> { c \in ColSet : IsObjectCol(rows, c) }]

\* as load_data, but without the helper column _saved_on_dt
load_data_NoHelper(file) ==
  IF file.st = "absent" THEN EmptyFrame
  ELSE IF file.st = "corrupt" THEN EmptyFrame
  ELSE LET cell(c, i) == IF c \in file.cols THEN ReadCsvCell(file.rows, c, i) ELSE StrCell(<< >>)
           row(i) == [c \in ColSet |-> cell(c, i)]
           rows == [i \in 1..Len(file.rows) |->
                      [username |-> row(i)["username"], content |-> row(i)["content"],
                       reason |-> row(i)["reason"], tags |-> row(i)["tags"],
                       saved_on |-> row(i)["saved_on"], dt |-> NaT]]
       IN [rows |-> rows, helper |-> FALSE, obj |-> { c \in ColSet : IsObjectCol(rows, c) }]

\* load_data, lines 14-34
load_data(file) ==
  IF file.st = "absent" THEN EmptyFrame
  ELSE IF file.st = "corrupt" THEN [rows |-> << >>, helper |-> TRUE, obj |-> ColSet]
  ELSE LET cell(c, i) == IF c \in file.cols THEN ReadCsvCell(file.rows, c, i) ELSE StrCell(<< >>)
           row(i) == [c \in ColSet |-> cell(c, i)]
           rows == [i \in 1..Len(file.rows) |->
                      [username |-> row(i)["username"], content |-> row(i)["content"],
                       reason |-> row(i)["reason"], tags |-> row(i)["tags"],
                       saved_on |-> row(i)["saved_on"], dt |-> to_datetime(row(i)["saved_on"])]]
       IN [rows |-> rows, helper |-> TRUE, obj |-> { c \in ColSet : IsObjectCol(rows, c) }]

\* persist_data(df.drop(columns=["_saved_on_dt"])), lines 37-38 and 174
persist_data(df) ==
  [st |-> "ok", cols |-> ColSet,
   rows |-> [i \in 1..Len(df.rows) |->
              [c \in ColSet |-> ToCsvText(df.rows[i][c])]]]

RECURSIVE SelectRows(_, _)
SelectRows(rows, keep) ==
  IF rows = << >> THEN << >>
  ELSE IF keep[1] THEN << Head(rows) >> \o SelectRows(Tail(rows), Tail(keep))
  ELSE SelectRows(Tail(rows), Tail(keep))

\* get_user_data, lines 41-43
get_user_data(df, username) ==
  [df EXCEPT !.rows =
     SelectRows(df.rows, [i \in 1..Len(df.rows) |-> df.rows[i].username = StrCell(username)])]

\* the tags of one cell, line 49-50
CellTags(cell) ==
  IF cell.k = "str" /\ Strip(cell.s) # << >>
  THEN LET parts == SplitComma(cell.s, << >>)
       IN { Strip(parts[i]) : i \in { j \in 1..Len(parts) : Strip(parts[j]) # << >> } }
  ELSE {}

\* collect_existing_tags, lines 46-51
collect_existing_tags(df) ==
  SortedSet({ DEFAULT_TAGS[i] : i \in 1..Len(DEFAULT_TAGS) }
            \cup UNION { CellTags(df.rows[i].tags) : i \in 1..Len(df.rows) })


(* ------------------------------ sorting ------------------------------- *)
\* sort key of a row: the helper column when the frame has it (lines 170-171,
\* 211-212), the raw saved_on text otherwise (lines 172-173, 213-214)
KeyMissing(df, r) == IF df.helper THEN r.dt = NaT ELSE r.saved_on.k # "str"

KeyLess(df, a, b) == IF df.helper THEN a.dt < b.dt ELSE StrLess(a.saved_on.s, b.saved_on.s)

Perms(n) == { p \in [1..n -> 1..n] : \A i, j \in 1..n : p[i] = p[j] => i = j }

\* as SortOrders, but rows without a key come first (na_position="first")
SortOrders_NaFirst(df, stable) ==
  LET n == Len(df.rows)
      r(p, i) == df.rows[p[i]]
      ok(p, i, j) ==
        IF KeyMissing(df, r(p, j)) THEN KeyMissing(df, r(p, i)) /\ p[i] < p[j]
        ELSE \/ KeyMissing(df, r(p, i))
             \/ KeyLess(df, r(p, j), r(p, i))
             \/ /\ ~KeyLess(df, r(p, i), r(p, j))
                /\ (stable => p[i] < p[j])
  IN { [i \in 1..n |-> df.rows[p[i]]] :
         p \in { q \in Perms(n) : \A i, j \in 1..n : i < j => ok(q, i, j) } }

\* sort_values(key, ascending=False): larger keys first, rows without a key
\* last in their old order; stable = rows with equal keys keep their old
\* order (kind="stable"), otherwise their order is whatever quicksort leaves
SortOrders(df, stable) ==
  LET n == Len(df.rows)
      r(p, i) == df.rows[p[i]]
      ok(p, i, j) ==
        IF KeyMissing(df, r(p, i)) THEN KeyMissing(df, r(p, j)) /\ p[i] < p[j]
        ELSE \/ KeyMissing(df, r(p, j))
             \/ KeyLess(df, r(p, j), r(p, i))
             \/ /\ ~KeyLess(df, r(p, i), r(p, j))
                /\ (stable => p[i] < p[j])
  IN { [i \in 1..n |-> df.rows[p[i]]] :
         p \in { q \in Perms(n) : \A i, j \in 1..n : i < j => ok(q, i, j) } }

sort_values(df, stable) == { [df EXCEPT !.rows = o] : o \in SortOrders(df, stable) }

(* ------------------------------- state -------------------------------- *)
VARIABLES
  file,            \* DATA_FILE, saved_content.csv
  current_user,    \* st.session_state.current_user
  available_tags,  \* st.session_state.available_tags
  selected_tags,   \* st.session_state.selected_tags, the value of the Tags multiselect
  search_active,   \* st.session_state.search_active
  now,             \* the wall clock, in minutes
  outcome,         \* what the last run did, or the notice it gave
  typed_tag,       \* "Create a tag" as the last Add tag or Save handler read it
  search_query,    \* "Search your saved items" as the last run read it
  again,           \* the last run was an Add tag of the tag that the run before it had added
  new_row,         \* the new_row of the last run: << >> or one record
  all_data,        \* the frame `all_data` at the end of the last run
  data,            \* the frame `data` at the end of the last run
  shown            \* what the "Find saved content" section showed

vars == << file, current_user, available_tags, selected_tags, search_active, now,
           outcome, typed_tag, search_query, again, new_row, all_data, data, shown >>

\* current_user = None
None == << "None" >>

ToSet(l) == { l[i] : i \in 1..Len(l) }

RECURSIVE Filter(_, _)
Filter(l, S) ==
  IF l = << >> THEN << >>
  ELSE IF Head(l) \in S THEN << Head(l) >> \o Filter(Tail(l), S)
  ELSE Filter(Tail(l), S)


(* ------------------------- the script, one run ------------------------ *)
\* as Display, but the query filters whether or not Search was ever pressed
Display_AlwaysFilters(df, sa, q) ==
  IF df.rows = << >> THEN { [status |-> "nothing", rows |-> << >>] }
  ELSE LET filtering == Strip(q) # << >>
           query == Lower(Strip(q))
           SearchCols == { "content", "reason", "tags" }
           \* Series.str.lower().str.contains(query, na=False): the query is a
           \* regular expression; a cell that is not text never matches
           contains(r, c) == r[c].k = "str" /\ RegexSearch(query, Lower(r[c].s))
           mask == [i \in 1..Len(df.rows) |-> \E c \in SearchCols : contains(df.rows[i], c)]
           filtered == IF filtering THEN [df EXCEPT !.rows = SelectRows(df.rows, mask)] ELSE df
       IN IF filtering /\ ~(SearchCols \subseteq df.obj)
          THEN \* .str on a column of dtype int64 or float64 raises AttributeError
               { [status |-> "error", rows |-> << >>] }
          ELSE IF sa /\ filtered.rows = << >> /\ Strip(q) # << >>
          THEN { [status |-> "no_match", rows |-> << >>] }
          ELSE { [status |-> "table", rows |-> o.rows] : o \in sort_values(filtered, FALSE) }

\* "Find saved content", lines 194-225: the outcomes of showing frame df
\* with the search flag sa and the query text q.  The table shows the
\* columns content, reason, tags and saved_on of these rows.
Display(df, sa, q) ==
  IF df.rows = << >> THEN { [status |-> "nothing", rows |-> << >>] }
  ELSE LET filtering == sa /\ Strip(q) # << >>
           query == Lower(Strip(q))
           SearchCols == { "content", "reason", "tags" }
           \* Series.str.lower().str.contains(query, na=False): the query is a
           \* regular expression; a cell that is not text never matches
           contains(r, c) == r[c].k = "str" /\ RegexSearch(query, Lower(r[c].s))
           mask == [i \in 1..Len(df.rows) |-> \E c \in SearchCols : contains(df.rows[i], c)]
           filtered == IF filtering THEN [df EXCEPT !.rows = SelectRows(df.rows, mask)] ELSE df
       IN IF filtering /\ ~(SearchCols \subseteq df.obj)
          THEN \* .str on a column of dtype int64 or float64 raises AttributeError
               { [status |-> "error", rows |-> << >>] }
          ELSE IF sa /\ filtered.rows = << >> /\ Strip(q) # << >>
          THEN { [status |-> "no_match", rows |-> << >>] }
          ELSE { [status |-> "table", rows |-> o.rows] : o \in sort_values(filtered, FALSE) }

\* as ConcatRow, but the new row is appended twice
ConcatRow_Twice(df, row) ==
  LET cells == [c \in ColSet |-> StrCell(row[c])] @@ [dt |-> to_datetime(StrCell(row.saved_on))]
      rows == df.rows \o << cells, cells >>
  IN [rows |-> [i \in 1..Len(rows) |-> [rows[i] EXCEPT !.dt = to_datetime(rows[i].saved_on)]],
      helper |-> TRUE, obj |-> ColSet]

\* pd.concat([all_data, pd.DataFrame([new_row])]) and the helper column
\* recomputed over all rows, lines 163-168
ConcatRow(df, row) ==
  LET rows == Append(df.rows, [c \in ColSet |-> StrCell(row[c])] @@ [dt |-> NaT])
  IN [rows |-> [i \in 1..Len(rows) |-> [rows[i] EXCEPT !.dt = to_datetime(rows[i].saved_on)]],
      helper |-> TRUE, obj |-> ColSet]

\* as EffectiveTags, but the typed tag is appended without looking for it
EffectiveTags_Always(sel, tag_value) ==
  IF tag_value # << >> THEN Append(sel, tag_value) ELSE sel

\* the effective_tags of Save, lines 146-153
EffectiveTags(sel, tag_value) ==
  IF tag_value # << >> /\ tag_value \notin ToSet(sel) THEN Append(sel, tag_value) ELSE sel

\* as WithTag, but the list is not sorted again
WithTag_Unsorted(tags, tag_value) == Append(tags, tag_value)

\* available_tags after appending a tag that is not in it, lines 123-124 and 150-151
WithTag(tags, tag_value) == SortedSet(ToSet(tags) \cup { tag_value })

\* One run of the script below the sidebar (lines 94-225) for the user cu
\* (None when logged out), with sel0 the value the multiselect sends, btn the
\* button pressed ("add", "save", "search" or "none"), and the texts of the
\* inputs Content, Why, Create a tag and Search.  The frames and the tags
\* computed at lines 95-99 are bound once and used below.
Run(cu, sel0, btn, base, content_input, reason_input, new_tag, q) ==
  \E all0 \in { load_data(file) } :
  \E data0 \in { IF cu # None THEN get_user_data(all0, cu) ELSE EmptyFrame } :
  \E tags0 \in { IF cu # None THEN collect_existing_tags(data0) ELSE available_tags } :
  LET logged == cu # None
      tag_value == Strip(new_tag)
      adding == logged /\ btn = "add" /\ tag_value # << >> /\ tag_value \notin ToSet(tags0)
      tags1 == IF adding THEN WithTag(tags0, tag_value) ELSE tags0
      sel1 == IF adding /\ tag_value \notin ToSet(sel0) THEN Append(sel0, tag_value) ELSE sel0
      saving == logged /\ btn = "save" /\ Strip(content_input) # << >> /\ Strip(reason_input) # << >>
      tags2 == IF saving /\ tag_value # << >> /\ tag_value \notin ToSet(tags1)
               THEN WithTag(tags1, tag_value) ELSE tags1
      sa1 == search_active \/ (logged /\ btn = "search")
  IN \* st.multiselect(options=available_tags, key="selected_tags"): a selected
     \* value that is no longer an option is kept or dropped by the widget
     \E sel2 \in (IF logged THEN { sel1, Filter(sel1, ToSet(tags1)) } ELSE { sel1 }) :
       LET row == [username |-> cu, content |-> Strip(content_input),
                   reason |-> Strip(reason_input),
                   tags |-> JoinCommaSpace(EffectiveTags(sel2, tag_value)),
                   saved_on |-> FmtNow(now)]
       IN \E all1 \in (IF saving THEN sort_values(ConcatRow(all0, row), TRUE) ELSE { all0 }) :
          \E data1 \in { IF saving THEN get_user_data(all1, cu) ELSE data0 } :
          \E sh \in (IF logged THEN Display(data1, sa1, q)
                     ELSE { [status |-> "login_required", rows |-> << >>] }) :
            /\ current_user' = cu
            /\ available_tags' = tags2
            /\ selected_tags' = sel2
            /\ search_active' = sa1
            /\ file' = IF saving THEN persist_data(all1) ELSE file
            /\ new_row' = IF saving THEN << row >> ELSE << >>
            /\ all_data' = all1
            /\ data' = data1
            /\ shown' = sh
            /\ typed_tag' = IF logged /\ btn \in { "add", "save" } THEN new_tag ELSE << >>
            /\ search_query' = IF logged THEN q ELSE << >>
            /\ again' = (logged /\ btn = "add" /\ outcome = "tag_added" /\ tag_value = Strip(typed_tag))
            /\ outcome' = CASE btn = "add" -> (IF adding THEN "tag_added"
                                               ELSE IF tag_value # << >> THEN "tag_exists"
                                               ELSE "tag_blank")
                            [] btn = "save" -> (IF saving THEN "save_ok" ELSE "save_blank")
                            [] btn = "search" -> "search"
                            [] OTHER -> base
            /\ now' = now

(* ------------------------------ inputs -------------------------------- *)
\* texts the user types
Blank == << " " >>
Al == << "a", "l" >>
Seven == << "7" >>
Bo == << "b", "o" >>
Ab == << "a", "b" >>
Cd == << "C", "d" >>
Old == << "o", "l", "d" >>
NotADate == << "n", "o", "t", "-", "a", "-", "d", "a", "t", "e" >>

\* the files the session may start from: none, an unreadable one, and one
\* written by hand without the tags column and with a free-form date
AbsentFile == [st |-> "absent", cols |-> {}, rows |-> << >>]

CorruptFile == [st |-> "corrupt", cols |-> {}, rows |-> << >>]

LegacyFile ==
  [st |-> "ok", cols |-> ColSet \ { "tags" },
   rows |-> << [username |-> Al, content |-> Old, reason |-> Cd, tags |-> << >>,
                saved_on |-> NotADate] >>]

\* a file the app has written: one record of al and two of bo, all saved in
\* minute 0
SharedFile ==
  [st |-> "ok", cols |-> ColSet,
   rows |-> << [username |-> Al, content |-> Old, reason |-> Cd, tags |-> Work, saved_on |-> FmtNow(0)],
               [username |-> Bo, content |-> Ab, reason |-> Cd, tags |-> Idea, saved_on |-> FmtNow(0)],
               [username |-> Bo, content |-> Old, reason |-> Cd, tags |-> Study, saved_on |-> FmtNow(0)] >>]

(* ------------------------------ actions ------------------------------- *)
\* init_session_state (lines 58-67) and the first run, nobody logged in
InitSession ==
  /\ current_user = None
  /\ available_tags = DEFAULT_TAGS
  /\ selected_tags = << >>
  /\ search_active = FALSE
  /\ now = 0
  /\ outcome = "start"
  /\ typed_tag = << >>
  /\ search_query = << >>
  /\ again = FALSE
  /\ new_row = << >>
  /\ all_data = load_data(file)
  /\ data = EmptyFrame
  /\ shown = [status |-> "login_required", rows |-> << >>]

\* the Login button, lines 86-92: a non-blank name is stored trimmed and
\* st.rerun() runs the script afresh with every input empty; a blank one
\* only warns
Login(username) ==
  /\ current_user = None
  /\ IF Strip(username) # << >>
     THEN Run(Strip(username), selected_tags, "none", "login_ok", << >>, << >>, << >>, << >>)
     ELSE Run(None, selected_tags, "none", "login_blank", << >>, << >>, << >>, << >>)

\* as Logout, but the tag selection is left as it is
Logout_KeepsTags ==
  /\ current_user # None
  /\ Run(None, selected_tags, "none", "logout", << >>, << >>, << >>, << >>)

\* the Logout button, lines 79-84
Logout ==
  /\ current_user # None
  /\ Run(None, << >>, "none", "logout", << >>, << >>, << >>, << >>)

\* the Add tag button, lines 118-132
AddTag(new_tag) ==
  /\ current_user # None
  /\ Run(current_user, selected_tags, "add", "add", << >>, << >>, new_tag, search_query)

\* the user changes the Tags multiselect (lines 134-139), which re-runs the script
SelectTags(sel) ==
  /\ current_user # None
  /\ ToSet(sel) \subseteq ToSet(available_tags)
  /\ sel # selected_tags
  /\ Run(current_user, sel, "none", "select", << >>, << >>, << >>, search_query)

\* the Save button, lines 141-177, while the file holds fewer than limit records
Save(limit, content_input, reason_input, new_tag) ==
  /\ current_user # None
  /\ Len(file.rows) < limit
  /\ Run(current_user, selected_tags, "save", "save", content_input, reason_input, new_tag, search_query)

\* the Search button, lines 187-190, with the search text as it then is
Search(q) ==
  /\ current_user # None
  /\ Run(current_user, selected_tags, "search", "search", << >>, << >>, << >>, q)

\* the user edits the search text, which re-runs the script with no button pressed
Rerun(q) ==
  /\ current_user # None
  /\ Run(current_user, selected_tags, "none", "rerun", << >>, << >>, << >>, q)

\* a minute passes
Tick ==
  /\ now < MaxClock
  /\ now' = now + 1
  /\ UNCHANGED << file, current_user, available_tags, selected_tags, search_active,
                  outcome, typed_tag, search_query, again, new_row, all_data, data, shown >>

(* ------------- sessions about tags and the session state -------------- *)
Init ==
  /\ file = AbsentFile
  /\ InitSession

Next ==
  \/ \E u \in { Blank, << " " >> \o Al } : Login(u)
  \/ Logout
  \/ \E t \in { << >>, Work, << " " >> \o Travel } : AddTag(t)
  \/ \E sel \in { << Study >>, << Work, Study >> } : SelectTags(sel)
  \/ \E c \in { Blank, Ab \o << " " >> }, r \in { << >>, Cd }, t \in { << >>, << " " >> \o Travel } :
       Save(MaxTagRecords, c, r, t)
  \/ \E q \in { << >> } : Search(q)
  \/ \E q \in { << >> } : Rerun(q)
  \/ Tick

Spec == Init /\ [][Next]_vars

(* ---------------------- sessions about the store ---------------------- *)
InitStore ==
  /\ file \in { AbsentFile, CorruptFile, LegacyFile }
  /\ InitSession

NextStore ==
  \/ \E u \in { << " " >> \o Al } : Login(u)
  \/ Logout
  \/ \E t \in { << >> } : AddTag(t)
  \/ \E sel \in { << Study >> } : SelectTags(sel)
  \/ \E c \in { Ab \o << " " >> }, r \in { Cd }, t \in { << >> } :
       Save(MaxRecords, c, r, t)
  \/ \E q \in { << >> } : Search(q)
  \/ \E q \in { << >> } : Rerun(q)
  \/ Tick

SpecStore == InitStore /\ [][NextStore]_vars

(* --------- sessions about what the CSV file does to the values -------- *)
InitCsv ==
  /\ file = AbsentFile
  /\ InitSession

NextCsv ==
  \/ \E u \in { << " " >> \o Al, Seven } : Login(u)
  \/ Logout
  \/ \E t \in { << >> } : AddTag(t)
  \/ \E sel \in { << Study >> } : SelectTags(sel)
  \/ \E c \in { Ab \o << " " >>, NA_TEXT }, r \in { Cd }, t \in { << >> } :
       Save(MaxRecords, c, r, t)
  \/ \E q \in { << >> } : Search(q)
  \/ \E q \in { << >> } : Rerun(q)
  \/ Tick

SpecCsv == InitCsv /\ [][NextCsv]_vars

(* ------------- sessions that start from an unreadable file ------------ *)
InitCorrupt ==
  /\ file = CorruptFile
  /\ InitSession

SpecCorrupt == InitCorrupt /\ [][NextStore]_vars

(* ------------------ sessions of more than one user -------------------- *)
InitUsers ==
  /\ file = AbsentFile
  /\ InitSession

NextUsers ==
  \/ \E u \in { Blank, << " " >> \o Al, Bo } : Login(u)
  \/ Logout
  \/ \E t \in { << >> } : AddTag(t)
  \/ \E sel \in { << Study >> } : SelectTags(sel)
  \/ \E c \in { Blank, Ab \o << " " >> }, r \in { << >>, << " " >> \o Cd }, t \in { << >> } :
       Save(MaxTagRecords, c, r, t)
  \/ \E q \in { << >> } : Search(q)
  \/ \E q \in { << >> } : Rerun(q)
  \/ Tick

SpecUsers == InitUsers /\ [][NextUsers]_vars

(* ------------------ sessions about the search flag -------------------- *)
\* only al presses Search; bo only types a query
InitFlag ==
  /\ file \in { AbsentFile, SharedFile }
  /\ InitSession

NextFlag ==
  \/ \E u \in { Al, Bo } : Login(u)
  \/ Logout
  \/ \E t \in { << >> } : AddTag(t)
  \/ \E sel \in { << Study >> } : SelectTags(sel)
  \/ \E c \in { Ab }, r \in { Cd }, t \in { << >> } :
       Save(MaxTagRecords, c, r, t)
  \/ \E q \in { << >>, << " ", "B" >> } : current_user = Al /\ Search(q)
  \/ \E q \in { << >>, << " ", "B" >> } : Rerun(q)
  \/ Tick

SpecFlag == InitFlag /\ [][NextFlag]_vars

(* ---------------------- sessions about the search --------------------- *)
InitSearch ==
  /\ file \in { AbsentFile, LegacyFile }
  /\ InitSession

NextSearch ==
  \/ \E u \in { Al } : Login(u)
  \/ Logout
  \/ \E t \in { << >> } : AddTag(t)
  \/ \E sel \in { << Study >> } : SelectTags(sel)
  \/ \E c \in { Ab }, r \in { Cd }, t \in { << >>, Work } :
       Save(MaxTagRecords, c, r, t)
  \/ \E q \in { << " ", "B" >>, << "." >>, << "w", "O", "r", "K" >> } : Search(q)
  \/ \E q \in { << >>, << " ", "B" >>, << "." >>, << "w", "O", "r", "K" >> } : Rerun(q)
  \/ Tick

SpecSearch == InitSearch /\ [][NextSearch]_vars


(* ------------------------------ claims -------------------------------- *)
\* the rows of a frame that equal the record R on the five columns
RowIs(r, R) == \A c \in ColSet : r[c] = StrCell(R[c])

Occurrences(rows, R) == Cardinality({ i \in 1..Len(rows) : RowIs(rows[i], R) })

\* the records of the file that belong to a user
StoredOf(username) == { i \in 1..Len(file.rows) : file.rows[i].username = username }

Filtering == search_active /\ Strip(search_query) # << >>

\* C1: while a user is logged in, every record shown has exactly that
\* username; when no search filter applies, as many records are shown as
\* the file holds for that username; and a user without records is shown
\* the empty result, not an error.
C1_PerUserIsolation ==
  current_user # None =>
    /\ \A i \in 1..Len(shown.rows) : shown.rows[i].username = StrCell(current_user)
    /\ ~Filtering => Len(shown.rows) = Cardinality(StoredOf(current_user))
    /\ StoredOf(current_user) = {} => shown.status = "nothing"

\* C2 as stated: after a successful Save of R, the records scoped to
\* R.username contain R exactly once.
C2_ExactlyOnce ==
  outcome = "save_ok" =>
    Occurrences(get_user_data(all_data, new_row[1].username).rows, new_row[1]) = 1

\* C2 amended: a successful Save of R adds exactly one occurrence of R to
\* the records scoped to R.username: they contain R once more than the
\* loaded records of that user did (so exactly once when none was equal).
C2_OneMoreOccurrence ==
  [][file' # file =>
       Occurrences(get_user_data(all_data', new_row'[1].username).rows, new_row'[1])
         = Occurrences(get_user_data(load_data(file), new_row'[1].username).rows, new_row'[1]) + 1]_vars

C2_Witness ==
  /\ outcome = "save_ok"
  /\ Occurrences(get_user_data(all_data, new_row[1].username).rows, new_row[1]) = 2


\* C3: a rejected action (blank Login, Save with blank content or reason,
\* Add tag with a blank or already present name) leaves the file,
\* current_user, available_tags and selected_tags as they were.
C3_RejectedLeavesState ==
  [][outcome' \in { "login_blank", "save_blank", "tag_exists", "tag_blank" } =>
       UNCHANGED << file, current_user, available_tags, selected_tags >>]_vars

CountIn(l, x) == Cardinality({ i \in 1..Len(l) : l[i] = x })

\* C4: the store is append-only and its records never change: a step either
\* leaves the file as it is or is a successful Save after which the file
\* holds every record it held, unchanged in all five fields, plus exactly
\* the new record.
C4_AppendOnly ==
  [][\/ file' = file
     \/ /\ outcome' = "save_ok"
        /\ Len(file'.rows) = Len(file.rows) + 1
        /\ \A r \in ToSet(file.rows) \cup ToSet(file'.rows) :
             CountIn(file'.rows, r) = CountIn(file.rows, r) + (IF r = new_row'[1] THEN 1 ELSE 0)]_vars

\* C5: an Add tag of X right after a successful Add tag of the same X gives
\* the notice "That tag already exists." and the registry holds X once.
C5_AddTagIdempotent ==
  again => /\ outcome = "tag_exists"
           /\ CountIn(available_tags, Strip(typed_tag)) = 1

\* C6: while the same user stays logged in, no run removes a tag from
\* available_tags.
C6_RegistryMonotonic ==
  [][(current_user # None /\ current_user' = current_user) =>
       ToSet(available_tags) \subseteq ToSet(available_tags')]_vars

IsSorted(l) == \A i \in 1..(Len(l) - 1) : StrLess(l[i], l[i + 1]) \/ l[i] = l[i + 1]

NoDuplicate(l) == \A i, j \in 1..Len(l) : l[i] = l[j] => i = j

HasDefaults(l) == ToSet(DEFAULT_TAGS) \subseteq ToSet(l)

\* C7 as stated: in every state available_tags and the results of
\* collect_existing_tags contain Study, Work and Idea, are sorted and have
\* no duplicate.
C7_RegistryAlwaysSorted ==
  \A l \in { available_tags, collect_existing_tags(all_data), collect_existing_tags(data) } :
    HasDefaults(l) /\ IsSorted(l) /\ NoDuplicate(l)

\* C7 amended: every result of collect_existing_tags contains Study, Work
\* and Idea, is sorted and has no duplicate; available_tags always contains
\* the three defaults without duplicate, is sorted whenever a user is logged
\* in, and otherwise is sorted or still the initial list Study, Work, Idea.
C7_RegistrySortedOnceLoggedIn ==
  /\ \A l \in { collect_existing_tags(all_data), collect_existing_tags(data) } :
       HasDefaults(l) /\ IsSorted(l) /\ NoDuplicate(l)
  /\ HasDefaults(available_tags) /\ NoDuplicate(available_tags)
  /\ current_user # None => IsSorted(available_tags)
  /\ IsSorted(available_tags) \/ available_tags = DEFAULT_TAGS

C7_Witness ==
  /\ outcome = "tag_added"
  /\ available_tags = << Idea, Study, Travel, Work >>

\* C8: after a successful Save the tags field of the new record, as held in
\* the file, is the selected tags in selection order followed by the trimmed
\* typed tag when that is not empty and not among them, joined with ", "
\* (empty when there is none), no tag twice; and a typed tag is in
\* available_tags.
C8_SavedTags ==
  outcome = "save_ok" =>
    LET typed == Strip(typed_tag)
        fresh == typed # << >> /\ \A i \in 1..Len(selected_tags) : selected_tags[i] # typed
        expected == IF fresh THEN selected_tags \o << typed >> ELSE selected_tags
    IN /\ new_row[1].tags = JoinCommaSpace(expected)
       /\ expected = << >> => new_row[1].tags = << >>
       /\ NoDuplicate(expected)
       /\ \E i \in 1..Len(file.rows) : file.rows[i] = new_row[1]
       /\ typed # << >> => typed \in ToSet(available_tags)

C8_Witness ==
  /\ outcome = "save_ok"
  /\ selected_tags = << Study >>
  /\ Strip(typed_tag) = Travel
  /\ new_row[1].tags = Study \o << ",", " " >> \o Travel
  /\ Travel \in ToSet(available_tags)

\* pat occurs in text, character for character
IsSubstring(pat, text) ==
  \E off \in 0..(Len(text) - Len(pat)) : \A j \in 1..Len(pat) : pat[j] = text[off + j]

SameRows(a, b) == Len(a) = Len(b) /\ \A r \in ToSet(a) \cup ToSet(b) : CountIn(a, r) = CountIn(b, r)

\* C9: what is shown of the user's records is all of them when the search
\* does not apply (empty query), and otherwise exactly those whose
\* lowercased content, reason or tags text contains the lowercased trimmed
\* query as a literal substring, a missing field matching nothing.
C9_SearchIsSubstring ==
  (current_user # None /\ data.rows # << >>) =>
    LET query == Lower(Strip(search_query))
        hit(r) == \E c \in { "content", "reason", "tags" } :
                    r[c].k = "str" /\ IsSubstring(query, Lower(r[c].s))
        expected == IF Filtering
                    THEN SelectRows(data.rows, [i \in 1..Len(data.rows) |-> hit(data.rows[i])])
                    ELSE data.rows
    IN shown.status # "error" /\ SameRows(shown.rows, expected)

\* C10: loading the file that a Save has just written gives back the table
\* that was written, equal on the five columns, and the file has exactly
\* those five columns.
C10_RoundTrip ==
  outcome = "save_ok" =>
    LET back == load_data(file)
    IN /\ file.cols = ColSet
       /\ Len(back.rows) = Len(all_data.rows)
       /\ \A i \in 1..Len(back.rows) : \A c \in ColSet : back.rows[i][c] = all_data.rows[i][c]

\* a row of a frame as to_csv writes it
RowText(r) == [c \in ColSet |-> ToCsvText(r[c])]

\* the records of the file that belong to a user, in file order
StoredRows(username) == SelectSeq(file.rows, LAMBDA r : r.username = username)

\* after is before, reordered by parsed saved_on descending, records without
\* a parseable saved_on last, records with equal keys in their order in before
IsStableRecencyOrder(before, after) ==
  /\ Len(after) = Len(before)
  /\ \E p \in Perms(Len(before)) :
       /\ \A i \in 1..Len(before) : after[i] = before[p[i]]
       /\ \A i, j \in 1..Len(before) : i < j =>
            LET ki == ParseText(after[i].saved_on)
                kj == ParseText(after[j].saved_on)
            IN IF ki = NaT THEN kj = NaT /\ p[i] < p[j]
               ELSE kj = NaT \/ ki > kj \/ (ki = kj /\ p[i] < p[j])

\* C11: right after a successful Save the file is the records it held
\* followed by the new one, put in recency order (parsed saved_on
\* descending, unparseable last, equal keys in their previous order), and
\* the table shows the user's records in the order they have in the file.
C11_RecencyOrder ==
  [][file' # file =>
       /\ IsStableRecencyOrder(file.rows \o new_row', file'.rows)
       /\ ~Filtering' =>
            /\ shown'.status = "table"
            /\ [i \in 1..Len(shown'.rows) |-> RowText(shown'.rows[i])] = StoredRows(current_user)']_vars

Unparseable(r) == ParseText(r.saved_on) = NaT

C13_CorruptionDoesNotBlockSave ==
  [][file.st = "corrupt" =>
       /\ load_data(file).rows = << >>
       /\ all_data.rows = << >>
       /\ outcome' = "save_ok" =>
            /\ file'.st = "ok" /\ file'.cols = ColSet
            /\ file'.rows = new_row'
            /\ [i \in 1..Len(load_data(file').rows) |-> RowText(load_data(file').rows[i])] = new_row'
       /\ outcome' # "save_ok" =>
            /\ file' = file
            /\ current_user' # None => shown'.status = "nothing"]_vars

C13_Witness ==
  /\ outcome = "save_ok"
  /\ file.st = "ok"
  /\ file.rows = new_row
  /\ shown.status = "table"
  /\ Len(shown.rows) = 1

\* C14: current_user becomes a value only from None, by a Login whose name
\* is not blank and is stored trimmed; it becomes None only by Logout; it
\* never changes from one user to another; a blank Login leaves it None; and
\* right after a Logout selected_tags is empty.
C14_TwoSessionStates ==
  [][/\ (current_user = None /\ current_user' # None) =>
          /\ outcome' = "login_ok"
          /\ current_user' # << >>
          /\ Strip(current_user') = current_user'
     /\ (current_user # None /\ current_user' = None) => outcome' = "logout"
     /\ (current_user # None /\ current_user' # None) => current_user' = current_user
     /\ outcome' = "login_blank" => current_user' = None
     /\ (outcome' = "logout" /\ current_user # None) =>
          current_user' = None /\ selected_tags' = << >>]_vars

C14_Witness ==
  /\ outcome = "logout"
  /\ current_user = None
  /\ selected_tags = << >>
  /\ \E i \in 1..Len(file.rows) : file.rows[i].username = Bo /\ file.rows[i].tags = Study

\* a text that is not empty and neither starts nor ends with a blank
IsTrimmedText(s) == s # << >> /\ s[1] # " " /\ s[Len(s)] # " "

\* C15: a step that changes the file is a Save by a logged-in user who
\* stays logged in; the one record it adds has that user as username,
\* which is not empty, and a content and a reason that are not empty and
\* carry no blank at either end; while nobody is logged in the file does
\* not change.
C15_SavedRecordFields ==
  [][file' # file =>
       /\ current_user # None /\ current_user' = current_user
       /\ outcome' = "save_ok"
       /\ Len(new_row') = 1
       /\ new_row'[1].username = current_user /\ current_user # << >>
       /\ IsTrimmedText(new_row'[1].content)
       /\ IsTrimmedText(new_row'[1].reason)
       /\ Len(file'.rows) = Len(file.rows) + 1
       /\ CountIn(file'.rows, new_row'[1]) = CountIn(file.rows, new_row'[1]) + 1]_vars

C15_Witness ==
  /\ outcome = "save_ok"
  /\ current_user = Bo
  /\ new_row[1].username = Bo /\ new_row[1].content = Ab /\ new_row[1].reason = Cd
  /\ \E i \in 1..Len(file.rows) : file.rows[i] = new_row[1]

\* rows in the order of their helper value: larger first, NaT last
ByHelperColumn(rows) ==
  \A i, j \in 1..Len(rows) : i < j =>
    IF rows[i].dt = NaT THEN rows[j].dt = NaT
    ELSE rows[j].dt = NaT \/ rows[i].dt >= rows[j].dt

\* C16: a frame that holds records has the helper column _saved_on_dt, so
\* whenever the table is shown or a Save has sorted, the sort took the
\* helper branch: the helper of every row is its parsed saved_on, and the
\* rows are in the order of the helper, NaT last.
C16_HelperAlwaysPresent ==
  /\ \A df \in { all_data, data, load_data(file) } :
       df.rows # << >> =>
         /\ df.helper
         /\ \A i \in 1..Len(df.rows) : df.rows[i].dt = to_datetime(df.rows[i].saved_on)
  /\ shown.status = "table" => data.helper /\ ByHelperColumn(shown.rows)
  /\ outcome = "save_ok" => all_data.helper /\ ByHelperColumn(all_data.rows)

C16_Witness ==
  /\ outcome = "login_ok"
  /\ shown.status = "table"
  /\ data.helper
  /\ Len(shown.rows) = 2
  /\ shown.rows[1].dt # NaT
  /\ shown.rows[2].dt = NaT

\* what the table may show of the records in data when the query filters:
\* the rows with a text field that the lowercased trimmed query matches, or
\* the notice that nothing matches, or the failure of .str on a column that
\* holds no text
ShowsFiltered ==
  LET query == Lower(Strip(search_query))
      hit(r) == \E c \in { "content", "reason", "tags" } :
                  r[c].k = "str" /\ RegexSearch(query, Lower(r[c].s))
      hits == SelectRows(data.rows, [i \in 1..Len(data.rows) |-> hit(data.rows[i])])
  IN \/ shown.status = "error" /\ ~({ "content", "reason", "tags" } \subseteq data.obj)
     \/ shown.status = "no_match" /\ hits = << >>
     \/ shown.status = "table" /\ hits # << >> /\ SameRows(shown.rows, hits)

ShowsAll == shown.status = "table" /\ SameRows(shown.rows, data.rows)

\* C17: search_active starts false, becomes true only by pressing Search
\* and is never reset, whatever the step (Logout and Login included); while
\* it is true a non-empty query filters the user's records in every run,
\* and while it is false all of the user's records are shown whatever the
\* query.
C17_SearchActiveNeverReset ==
  /\ search_active = FALSE
  /\ [][/\ search_active => search_active'
        /\ (~search_active /\ search_active') => outcome' = "search"
        /\ (current_user' # None /\ data'.rows # << >>) =>
             IF search_active' /\ Strip(search_query') # << >>
             THEN ShowsFiltered' ELSE ShowsAll']_vars

\* bo, who cannot press Search in these sessions, types a query and sees
\* only the matching records
C17_Witness ==
  /\ current_user = Bo
  /\ outcome = "rerun"
  /\ search_active
  /\ Strip(search_query) # << >>
  /\ shown.status = "table"
  /\ Len(shown.rows) = 1
  /\ Len(data.rows) = 2

====
